---- MODULE Spec2Model ----
(***************************************************************************)
(* A model of src/Helpers.py of UrzasResearchDesk:                         *)
(*   sparse_column_value_counts  (the sparse column profiler), and         *)
(*   fuzzy_join                  (the nearest-rank join of two tables).    *)
(* Rows, columns and offsets are 0-based as in the Python source; TLA+     *)
(* sequences are 1-based, so a[k] of the source is a[k + 1] here.          *)
(***************************************************************************)
EXTENDS Integers, Sequences, FiniteSets, TLC

\* Bounds of the profiler's inputs.
MaxMatRows == 3
MaxMatCols == 1
MaxVal == 1

\* Bounds of the joiner's inputs: the rows of df1, the rows of df2 and the
\* ranks in them; MaxKeyRows bounds the rows of the tables that may lack a column.
MaxRows1 == 3
MaxRows2 == 2
MaxRank == 2
MaxKeyRows == 2

\* The player names of the tables, in the order the tables list them.
NameOrder == <<"Al", "Bo">>

VARIABLES
    \* ---- sparse_column_value_counts ----
    sparse_matrix,  \* the argument: [shape |-> <<n_rows, n_cols>>, entries |-> stored cell -> value]
    normalize,      \* the argument normalize
    rep,            \* which representation of the contents the caller passed
    csc_matrix,     \* the local csc_matrix (NoMatrix before the conversion)
    col_idx,        \* the loop variable
    result,         \* the local result: a sequence of dicts
    ppc,            \* position in sparse_column_value_counts
    dense_result    \* what the call on the dense representation returned

VARIABLES
    \* ---- fuzzy_join ----
    df1, df2,         \* the arguments: [columns |-> set of names, rows |-> sequence of rows]
    standard_join,    \* the local standard_join: a sequence of merged rows
    duplicate_names,  \* the local duplicate_names
    visited,          \* the names the for loop has visited, in its order
    clean_join,       \* the local clean_join
    fuzzy_results,    \* the local fuzzy_results: a sequence of joined rows
    dup_name,         \* the loop variable
    dup_df1, dup_df2, \* the rows of df1 / df2 named dup_name, as their index labels
    distances,        \* the local distances, a function of <<i, j>>
    matched_pairs,    \* the local matched_pairs: a sequence of <<i, j>>
    final_result,     \* what the call returned
    error,            \* the exception the call raised, or "none"
    jpc,              \* position in fuzzy_join
    matched_rows,     \* the <<df1 row, df2 row>> index labels paired by this call
    run,              \* 1 for the first call on the tables, 2 for the second
    first_rows,       \* matched_rows of the first call
    first_visited     \* visited of the first call

pvars == <<sparse_matrix, normalize, rep, csc_matrix, col_idx, result, ppc, dense_result>>

jlocals == <<standard_join, duplicate_names, visited, clean_join, fuzzy_results, dup_name,
             dup_df1, dup_df2, distances, matched_pairs, final_result, error, matched_rows>>

jvars == <<df1, df2, jlocals, jpc, run, first_rows, first_visited>>

vars == <<pvars, jvars>>

----------------------------------------------------------------------------
(* Python values *)

NoMatrix == [shape |-> <<0, 0>>, indptr |-> <<>>, indices |-> <<>>, data |-> <<>>]

NoDistances == [c \in {} |-> 0]

\* The joiner before a call: nothing computed yet.
JoinLocalsFresh ==
    /\ standard_join = <<>>
    /\ duplicate_names = {}
    /\ visited = <<>>
    /\ clean_join = <<>>
    /\ fuzzy_results = <<>>
    /\ dup_name = ""
    /\ dup_df1 = <<>>
    /\ dup_df2 = <<>>
    /\ distances = NoDistances
    /\ matched_pairs = <<>>
    /\ final_result = <<>>
    /\ error = "none"
    /\ matched_rows = {}

\* The joiner while the profiler is the program under study.
JoinIdle ==
    /\ df1 = [columns |-> {}, rows |-> <<>>]
    /\ df2 = [columns |-> {}, rows |-> <<>>]
    /\ JoinLocalsFresh
    /\ jpc = "idle"
    /\ run = 1
    /\ first_rows = {}
    /\ first_visited = <<>>

\* The profiler while the joiner is the program under study.
ProfileIdle ==
    /\ sparse_matrix = [shape |-> <<0, 0>>, entries |-> [c \in {} |-> 0]]
    /\ normalize = FALSE
    /\ rep = "given"
    /\ csc_matrix = NoMatrix
    /\ col_idx = 0
    /\ result = <<>>
    /\ ppc = "idle"
    /\ dense_result = <<>>

\* A dict is a function, its keys the function's domain.
\* d[k] = v on a dict: the key is added, or its value REPLACED.
SetItem(d, k, v) == [x \in (DOMAIN d) \cup {k} |-> IF x = k THEN v ELSE d[x]]

RECURSIVE SumOver(_, _)
SumOver(d, keys) ==
    IF keys = {} THEN 0
    ELSE LET k == CHOOSE x \in keys : TRUE IN d[k] + SumOver(d, keys \ {k})

\* sum(d.values())
SumValues(d) == SumOver(d, DOMAIN d)

----------------------------------------------------------------------------
(* scipy.sparse: the matrices the profiler is given *)

Cells(shape) == (0..(shape[1] - 1)) \X (0..(shape[2] - 1))

\* The shapes within the bounds; a matrix may have no rows or no columns.
Shapes == (0..MaxMatRows) \X (0..MaxMatCols)

\* The rows of column j that are stored, from row i on, in ascending order.
RECURSIVE ColumnIndices(_, _, _)
ColumnIndices(M, j, i) ==
    IF i >= M.shape[1] THEN <<>>
    ELSE (IF <<i, j>> \in DOMAIN M.entries THEN <<i>> ELSE <<>>)
             \o ColumnIndices(M, j, i + 1)

RECURSIVE AppendColumns(_, _, _)
AppendColumns(M, j, csc) ==
    IF j >= M.shape[2] THEN csc
    ELSE LET rows == ColumnIndices(M, j, 0)
             vals == [k \in 1..Len(rows) |-> M.entries[<<rows[k], j>>]]
         IN  AppendColumns(M, j + 1,
                 [csc EXCEPT !.indices = @ \o rows,
                             !.data = @ \o vals,
                             !.indptr = Append(@, Len(csc.data) + Len(rows))])

\* sparse_matrix.tocsc(): compressed columns; the stored cells stay stored.
tocsc(M) ==
    AppendColumns(M, 0, [shape |-> M.shape, indptr |-> <<0>>,
                         indices |-> <<>>, data |-> <<>>])

\* The value of a cell: the stored value, or 0 for a cell that is not stored.
CellValue(M, cell) == IF cell \in DOMAIN M.entries THEN M.entries[cell] ELSE 0

\* The same contents with every cell stored, zeros included.
DenseRep(M) ==
    [shape |-> M.shape,
     entries |-> [cell \in Cells(M.shape) |-> CellValue(M, cell)]]

\* The same contents with only the non-zero cells stored.
SparseRep(M) ==
    [shape |-> M.shape,
     entries |-> [cell \in {x \in Cells(M.shape) : CellValue(M, x) # 0}
                     |-> CellValue(M, cell)]]

----------------------------------------------------------------------------
(* sparse_column_value_counts *)

\* Counter(data) that skips the falsy value 0.
CounterNonZero(data) ==
    [v \in {data[k] : k \in DOMAIN data} \ {0}
        |-> Cardinality({k \in DOMAIN data : data[k] = v})]

\* Counter(data): each distinct value with the number of its occurrences.
Counter(data) ==
    [v \in {data[k] : k \in DOMAIN data}
        |-> Cardinality({k \in DOMAIN data : data[k] = v})]

\* counter[0] = zeros_count under the test zeros_count >= 0.
AddZerosAlways(counter, zeros_count) ==
    IF zeros_count >= 0
    THEN [x \in (DOMAIN counter) \cup {0} |-> IF x = 0 THEN zeros_count ELSE counter[x]]
    ELSE counter

\* if zeros_count > 0: counter[0] = zeros_count
AddZeros(counter, zeros_count) ==
    IF zeros_count > 0 THEN SetItem(counter, 0, zeros_count) ELSE counter

\* v / total, kept as the fraction it is computed from.
Divide(v, total) == [num |-> v, den |-> total]

\* if normalize: counter = {k: v / total for k, v in counter.items()}
Normalized(counter, norm, total) ==
    IF norm THEN [k \in DOMAIN counter |-> Divide(counter[k], total)] ELSE counter

\* The counter of column j before the normalisation (lines 85-96).
ColumnCounter(csc, j) ==
    LET n_rows == csc.shape[1]
        start == csc.indptr[j + 1]
        end == csc.indptr[j + 2]
        data == SubSeq(csc.data, start + 1, end)
        counter == Counter(data)
        explicit_entries == end - start
        zeros_count == n_rows - explicit_entries
    IN  AddZeros(counter, zeros_count)

\* The body of the loop over the columns, for column j.
ColumnCounts(csc, j, norm) ==
    Normalized(ColumnCounter(csc, j), norm, csc.shape[1])

\* v / total raises ZeroDivisionError when total is 0 and there is a v to divide.
DividesByZero(csc, j, norm) ==
    norm /\ csc.shape[1] = 0 /\ DOMAIN ColumnCounter(csc, j) # {}

\* Any shape, any set of stored cells, any stored values (a stored 0 included).
InitProfile ==
    /\ \E shape \in Shapes :
          \E stored \in SUBSET Cells(shape) :
              \E e \in [stored -> 0..MaxVal] :
                  sparse_matrix = [shape |-> shape, entries |-> e]
    /\ normalize \in BOOLEAN
    /\ rep = "given"
    /\ csc_matrix = NoMatrix
    /\ col_idx = 0
    /\ result = <<>>
    /\ ppc = "call"
    /\ dense_result = <<>>
    /\ JoinIdle

\* Lines 74-81: the conversion to CSC, the shape, the empty result.
ConvertToCSC ==
    /\ ppc = "call"
    /\ csc_matrix' = tocsc(sparse_matrix)
    /\ result' = <<>>
    /\ col_idx' = 0
    /\ ppc' = "loop"
    /\ UNCHANGED <<sparse_matrix, normalize, rep, dense_result, jvars>>

\* Lines 83-103: one iteration of the loop over the columns.
ProfileColumn ==
    /\ ppc = "loop"
    /\ col_idx < csc_matrix.shape[2]
    /\ IF DividesByZero(csc_matrix, col_idx, normalize)
       THEN /\ ppc' = "ZeroDivisionError"
            /\ UNCHANGED <<result, col_idx>>
       ELSE /\ result' = Append(result, ColumnCounts(csc_matrix, col_idx, normalize))
            /\ col_idx' = col_idx + 1
            /\ ppc' = ppc
    /\ UNCHANGED <<sparse_matrix, normalize, rep, csc_matrix, dense_result, jvars>>

\* Line 105: return result.
ReturnResult ==
    /\ ppc = "loop"
    /\ col_idx >= csc_matrix.shape[2]
    /\ ppc' = "done"
    /\ UNCHANGED <<sparse_matrix, normalize, rep, csc_matrix, col_idx, result, dense_result, jvars>>

\* The caller profiles the same contents again, every cell stored.
CallOnDense ==
    /\ ppc = "done"
    /\ rep = "given"
    /\ sparse_matrix' = DenseRep(sparse_matrix)
    /\ rep' = "dense"
    /\ ppc' = "call"
    /\ UNCHANGED <<normalize, csc_matrix, col_idx, result, dense_result, jvars>>

\* The caller keeps the dense call's profiles and profiles the same
\* contents once more, only the non-zero cells stored.
CallOnSparse ==
    /\ ppc = "done"
    /\ rep = "dense"
    /\ dense_result' = result
    /\ sparse_matrix' = SparseRep(sparse_matrix)
    /\ rep' = "sparse"
    /\ ppc' = "call"
    /\ UNCHANGED <<normalize, csc_matrix, col_idx, result, jvars>>

NextProfile ==
    \/ ConvertToCSC
    \/ ProfileColumn
    \/ ReturnResult
    \/ CallOnDense
    \/ CallOnSparse

SpecProfile == InitProfile /\ [][NextProfile]_vars

----------------------------------------------------------------------------
(* pandas: the tables the joiner is given *)

Names == {NameOrder[k] : k \in DOMAIN NameOrder}

\* The ranks of a table: finite numbers, here the standings 1..MaxRank.
Ranks == 1..MaxRank

NamePosition(n) == CHOOSE k \in DOMAIN NameOrder : NameOrder[k] = n

\* The rows of one player stand together, the players in NameOrder. fuzzy_join
\* reads a table only through the rows of one name, in their order, and through
\* a merge whose output order no claim is about.
Grouped(rows) ==
    \A i, j \in DOMAIN rows :
        i < j => NamePosition(rows[i]["Player"]) <= NamePosition(rows[j]["Player"])

FullRows == { [Player |-> n, Rank |-> r] : n \in Names, r \in Ranks }

\* The tables of at most N rows with both columns.
Tables(N) ==
    { [columns |-> {"Player", "Rank"}, rows |-> s] :
        s \in { t \in UNION { [1..n -> FullRows] : n \in 0..N } : Grouped(t) } }

\* The table without the columns outside cols.
Project(df, cols) ==
    [columns |-> df.columns \cap cols,
     rows |-> [k \in DOMAIN df.rows |-> [c \in df.columns \cap cols |-> df.rows[k][c]]]]

Abs(x) == IF x < 0 THEN 0 - x ELSE x

Min(x, y) == IF x < y THEN x ELSE y

\* df[df['Player'] == name] from row k on (1-based), as the index labels
\* (0-based) of the rows it keeps, in the table's order.
RECURSIVE SelectFrom(_, _, _)
SelectFrom(df, name, k) ==
    IF k > Len(df.rows) THEN <<>>
    ELSE (IF df.rows[k]["Player"] = name THEN <<k - 1>> ELSE <<>>)
             \o SelectFrom(df, name, k + 1)

SelectRows(df, name) == SelectFrom(df, name, 1)

\* dup.iloc[i] of a selection dup of df.
iloc(df, dup, i) == df.rows[dup[i + 1] + 1]

\* df['Player'].value_counts()[name]
ValueCount(df, name) ==
    Cardinality({k \in DOMAIN df.rows : df.rows[k]["Player"] = name})

\* df['Player'].value_counts()[df['Player'].value_counts() > 1].index.tolist()
DuplicatedIn(df) ==
    { n \in {df.rows[k]["Player"] : k \in DOMAIN df.rows} : ValueCount(df, n) > 1 }

\* The duplicate names of the left table alone.
DuplicateNamesLeft(a, b) == DuplicatedIn(a)

\* Line 142: list(set(duplicate_names_df1 + duplicate_names_df2))
DuplicateNames(a, b) == DuplicatedIn(a) \cup DuplicatedIn(b)

\* The name merge gives a column of the right table: suffixed when the left
\* table has a column of that name (suffixes = ('', '_standings')).
RightName(c, r1) == IF c \in DOMAIN r1 THEN c \o "_standings" ELSE c

\* One row of pd.merge(df1, df2, on='Player', how='inner'): the key, every
\* other column of the left row, every other column of the right row.
MergedRow(r1, r2) ==
    LET right == (DOMAIN r2) \ {"Player"}
    IN  [c \in (DOMAIN r1) \cup {RightName(x, r1) : x \in right} |->
            IF c \in DOMAIN r1 THEN r1[c]
            ELSE r2[CHOOSE x \in right : RightName(x, r1) = c]]

\* The rows of the merge from the pair <<i, j>> on: the left table's order,
\* and for each left row the right table's order.
RECURSIVE MergeFrom(_, _, _, _)
MergeFrom(a, b, i, j) ==
    IF i > Len(a.rows) THEN <<>>
    ELSE IF j > Len(b.rows) THEN MergeFrom(a, b, i + 1, 1)
    ELSE (IF a.rows[i]["Player"] = b.rows[j]["Player"]
          THEN <<MergedRow(a.rows[i], b.rows[j])>> ELSE <<>>)
             \o MergeFrom(a, b, i, j + 1)

\* Line 137: pd.merge raises KeyError when a table has no column 'Player'.
MergeRaises(a, b) == "Player" \notin a.columns \/ "Player" \notin b.columns

Merge(a, b) == MergeFrom(a, b, 1, 1)

\* The rows of joined from row k on whose name is not in dups.
RECURSIVE CleanFrom(_, _, _)
CleanFrom(joined, dups, k) ==
    IF k > Len(joined) THEN <<>>
    ELSE (IF joined[k]["Player"] \notin dups THEN <<joined[k]>> ELSE <<>>)
             \o CleanFrom(joined, dups, k + 1)

\* The filter of line 145 without its negation.
RECURSIVE DirtyFrom(_, _, _)
DirtyFrom(joined, dups, k) ==
    IF k > Len(joined) THEN <<>>
    ELSE (IF joined[k]["Player"] \in dups THEN <<joined[k]>> ELSE <<>>)
             \o DirtyFrom(joined, dups, k + 1)

CleanJoinInverted(joined, dups) == DirtyFrom(joined, dups, 1)

\* Line 145: standard_join[~standard_join['Player'].isin(duplicate_names)]
CleanJoin(joined, dups) == CleanFrom(joined, dups, 1)

----------------------------------------------------------------------------
(* numpy: the distance matrix *)

\* A float of the matrix: a finite distance, or np.inf.
Finite(d) == [inf |-> FALSE, val |-> d]

Inf == [inf |-> TRUE, val |-> 0]

\* x < y on these floats.
Less(x, y) == (~x.inf) /\ (y.inf \/ x.val < y.val)

Shape(d1, d2) == <<Len(d1), Len(d2)>>

\* np.unravel_index(k, shape) of a flat, row-major index.
unravel_index(k, shape) == <<k \div shape[2], k % shape[2]>>

\* The flat index of the LAST smallest entry.
argmin_last(dist, shape) ==
    LET flat == 0..(shape[1] * shape[2] - 1)
        at(k) == dist[<<k \div shape[2], k % shape[2]>>]
    IN  CHOOSE k \in flat :
            /\ \A l \in flat : ~((~at(l).inf) /\ (at(k).inf \/ at(l).val < at(k).val))
            /\ \A l \in flat : l > k => ((~at(k).inf) /\ (at(l).inf \/ at(k).val < at(l).val))

\* distances.argmin(): the flat index of the first smallest entry.
argmin(dist, shape) ==
    LET flat == 0..(shape[1] * shape[2] - 1)
        at(k) == dist[unravel_index(k, shape)]
    IN  CHOOSE k \in flat :
            /\ \A l \in flat : ~Less(at(l), at(k))
            /\ \A l \in flat : l < k => Less(at(k), at(l))

\* Line 171 without line 172: the row alone is invalidated.
InvalidateRowOnly(dist, i, j) ==
    [c \in DOMAIN dist |-> IF c[1] = i THEN [inf |-> TRUE, val |-> 0] ELSE dist[c]]

\* Lines 171-172: distances[i, :] = np.inf; distances[:, j] = np.inf
Invalidate(dist, i, j) ==
    [c \in DOMAIN dist |-> IF c[1] = i \/ c[2] = j THEN Inf ELSE dist[c]]

\* Lines 157-161: the matrix of absolute rank differences of two selections.
Distances(a, b, d1, d2) ==
    [c \in (0..(Len(d1) - 1)) \X (0..(Len(d2) - 1)) |->
        Finite(Abs(iloc(a, d1, c[1])["Rank"] - iloc(b, d2, c[2])["Rank"]))]

\* Lines 159-161: row1.Rank / row2.Rank raise AttributeError without the column.
RankRaises(a, b) == "Rank" \notin a.columns \/ "Rank" \notin b.columns

\* Line 155 with or for and.
EitherPresent(d1, d2) == Len(d1) > 0 \/ Len(d2) > 0

\* Line 155: if len(dup_df1) > 0 and len(dup_df2) > 0
BothPresent(d1, d2) == Len(d1) > 0 /\ Len(d2) > 0

\* Line 165: while len(matched_pairs) < min(len(dup_df1), len(dup_df2))
MorePairs(pairs, d1, d2) == Len(pairs) < Min(Len(d1), Len(d2))

\* Lines 179-183: the joined row of one matched pair.
JoinedRow(row_df1, row_df2) ==
    [name |-> row_df1["Player"], rank_df1 |-> row_df1["Rank"], rank_df2 |-> row_df2["Rank"]]

\* Lines 175-185: the joined rows of the matched pairs, in their order.
JoinedRows(a, b, d1, d2, pairs) ==
    [k \in DOMAIN pairs |-> JoinedRow(iloc(a, d1, pairs[k][1]), iloc(b, d2, pairs[k][2]))]

\* The index labels of the rows the matched pairs pair.
PairedRows(d1, d2, pairs) ==
    { <<d1[pairs[k][1] + 1], d2[pairs[k][2] + 1]>> : k \in DOMAIN pairs }

\* A for loop left after its first iteration.
UnvisitedFirstOnly(dups, seen) == IF seen = <<>> THEN dups ELSE {}

\* Line 149: the names the for loop still has to visit.
Unvisited(dups, seen) == dups \ {seen[k] : k \in DOMAIN seen}

----------------------------------------------------------------------------
(* fuzzy_join *)

InitJoin ==
    /\ df1 \in Tables(MaxRows1)
    /\ df2 \in Tables(MaxRows2)
    /\ JoinLocalsFresh
    /\ jpc = "call"
    /\ run = 1
    /\ first_rows = {}
    /\ first_visited = <<>>
    /\ ProfileIdle

ColumnSets == SUBSET {"Player", "Rank"}

\* Tables that may lack columns.
InitKeys ==
    /\ \E a \in Tables(MaxKeyRows), b \in Tables(MaxKeyRows), ca \in ColumnSets, cb \in ColumnSets :
          /\ df1 = Project(a, ca)
          /\ df2 = Project(b, cb)
    /\ JoinLocalsFresh
    /\ jpc = "call"
    /\ run = 1
    /\ first_rows = {}
    /\ first_visited = <<>>
    /\ ProfileIdle

\* Line 137: the standard join on the names.
StandardJoin ==
    /\ jpc = "call"
    /\ IF MergeRaises(df1, df2)
       THEN /\ error' = "KeyError"
            /\ jpc' = "error"
            /\ UNCHANGED standard_join
       ELSE /\ standard_join' = Merge(df1, df2)
            /\ jpc' = "duplicates"
            /\ UNCHANGED error
    /\ UNCHANGED <<df1, df2, duplicate_names, visited, clean_join, fuzzy_results, dup_name,
                   dup_df1, dup_df2, distances, matched_pairs, final_result, matched_rows,
                   run, first_rows, first_visited, pvars>>

\* Lines 140-148: the duplicate names, the clean join, the empty fuzzy_results.
FindDuplicates ==
    /\ jpc = "duplicates"
    /\ duplicate_names' = DuplicateNames(df1, df2)
    /\ clean_join' = CleanJoin(standard_join, DuplicateNames(df1, df2))
    /\ fuzzy_results' = <<>>
    /\ jpc' = "loop"
    /\ UNCHANGED <<df1, df2, standard_join, visited, dup_name, dup_df1, dup_df2, distances,
                   matched_pairs, final_result, error, matched_rows,
                   run, first_rows, first_visited, pvars>>

\* Lines 149-155: an iteration for a name that one of the tables does not have.
SkipName ==
    /\ jpc = "loop"
    /\ \E n \in Unvisited(duplicate_names, visited) :
          /\ ~BothPresent(SelectRows(df1, n), SelectRows(df2, n))
          /\ dup_name' = n
          /\ dup_df1' = SelectRows(df1, n)
          /\ dup_df2' = SelectRows(df2, n)
          /\ visited' = Append(visited, n)
    /\ UNCHANGED <<df1, df2, standard_join, duplicate_names, clean_join, fuzzy_results,
                   distances, matched_pairs, final_result, error, jpc, matched_rows,
                   run, first_rows, first_visited, pvars>>

\* Lines 149-164: an iteration for a name both tables have, up to the greedy loop.
StartName ==
    /\ jpc = "loop"
    /\ \E n \in Unvisited(duplicate_names, visited) :
          /\ BothPresent(SelectRows(df1, n), SelectRows(df2, n))
          /\ dup_name' = n
          /\ dup_df1' = SelectRows(df1, n)
          /\ dup_df2' = SelectRows(df2, n)
          /\ visited' = Append(visited, n)
          /\ IF RankRaises(df1, df2)
             THEN /\ error' = "AttributeError"
                  /\ jpc' = "error"
                  /\ UNCHANGED <<distances, matched_pairs>>
             ELSE /\ distances' = Distances(df1, df2, SelectRows(df1, n), SelectRows(df2, n))
                  /\ matched_pairs' = <<>>
                  /\ jpc' = "greedy"
                  /\ UNCHANGED error
    /\ UNCHANGED <<df1, df2, standard_join, duplicate_names, clean_join, fuzzy_results,
                   final_result, matched_rows, run, first_rows, first_visited, pvars>>

\* Lines 165-172: one iteration of the greedy loop.
GreedyStep ==
    /\ jpc = "greedy"
    /\ MorePairs(matched_pairs, dup_df1, dup_df2)
    /\ LET shape == Shape(dup_df1, dup_df2)
           min_idx == unravel_index(argmin(distances, shape), shape)
       IN  /\ matched_pairs' = Append(matched_pairs, min_idx)
           /\ distances' = Invalidate(distances, min_idx[1], min_idx[2])
    /\ UNCHANGED <<df1, df2, standard_join, duplicate_names, visited, clean_join,
                   fuzzy_results, dup_name, dup_df1, dup_df2, final_result, error, jpc,
                   matched_rows, run, first_rows, first_visited, pvars>>

\* Lines 174-185: the joined rows of the matched pairs join fuzzy_results.
EmitPairs ==
    /\ jpc = "greedy"
    /\ ~MorePairs(matched_pairs, dup_df1, dup_df2)
    /\ fuzzy_results' = fuzzy_results \o JoinedRows(df1, df2, dup_df1, dup_df2, matched_pairs)
    /\ matched_rows' = matched_rows \cup PairedRows(dup_df1, dup_df2, matched_pairs)
    /\ jpc' = "loop"
    /\ UNCHANGED <<df1, df2, standard_join, duplicate_names, visited, clean_join, dup_name,
                   dup_df1, dup_df2, distances, matched_pairs, final_result, error,
                   run, first_rows, first_visited, pvars>>

\* Lines 187-194: the clean join and the fuzzy results, concatenated and returned.
\* A row keeps the columns it has; pd.concat fills the others with NaN.
Combine ==
    /\ jpc = "loop"
    /\ Unvisited(duplicate_names, visited) = {}
    /\ final_result' = clean_join \o fuzzy_results
    /\ jpc' = "done"
    /\ UNCHANGED <<df1, df2, standard_join, duplicate_names, visited, clean_join,
                   fuzzy_results, dup_name, dup_df1, dup_df2, distances, matched_pairs,
                   error, matched_rows, run, first_rows, first_visited, pvars>>

\* The caller keeps what the first call paired and calls fuzzy_join again on
\* the same tables.
CallAgain ==
    /\ jpc = "done"
    /\ run = 1
    /\ run' = 2
    /\ first_rows' = matched_rows
    /\ first_visited' = visited
    /\ standard_join' = <<>>
    /\ duplicate_names' = {}
    /\ visited' = <<>>
    /\ clean_join' = <<>>
    /\ fuzzy_results' = <<>>
    /\ dup_name' = ""
    /\ dup_df1' = <<>>
    /\ dup_df2' = <<>>
    /\ distances' = NoDistances
    /\ matched_pairs' = <<>>
    /\ final_result' = <<>>
    /\ error' = "none"
    /\ matched_rows' = {}
    /\ jpc' = "call"
    /\ UNCHANGED <<df1, df2, pvars>>

NextJoin ==
    \/ StandardJoin
    \/ FindDuplicates
    \/ SkipName
    \/ StartName
    \/ GreedyStep
    \/ EmitPairs
    \/ Combine

NextRerun == NextJoin \/ CallAgain

Spec == InitJoin /\ [][NextJoin]_vars

SpecRerun == InitJoin /\ [][NextRerun]_vars

SpecKeys == InitKeys /\ [][NextJoin]_vars

----------------------------------------------------------------------------
(* The profiler's claims, under SpecProfile *)

\* The columns of the current call that are profiled, as positions of result.
Profiled == IF ppc \in {"loop", "done"} THEN DOMAIN result ELSE {}

\* The stored cells of column j (0-based) of the argument.
StoredIn(j) == {c \in DOMAIN sparse_matrix.entries : c[2] = j}

\* e of the claim C2: the stored entries of column j that are 0.
ExplicitZeros(j) == Cardinality({c \in StoredIn(j) : sparse_matrix.entries[c] = 0})

\* z of the claim C2: the rows of column j without a stored entry.
ImplicitZeros(j) == sparse_matrix.shape[1] - Cardinality(StoredIn(j))

\* C1: for every matrix, whatever its stored values, and every column j, the
\* bucket counts of the profile of column j (normalize = False) sum to the
\* number of rows of the matrix.
C1_CountsSumToRows ==
    \A k \in Profiled :
        ~normalize => SumValues(result[k]) = sparse_matrix.shape[1]

\* C2: for a column with e stored zeros and z rows without a stored entry, the
\* bucket of the value 0 is e + z (divided by the row count when normalize is
\* true), also when e > 0 and z > 0 at once.
C2_ZeroBucketAggregates ==
    \A k \in Profiled :
        LET zeros == ExplicitZeros(k - 1) + ImplicitZeros(k - 1)
        IN  zeros > 0 =>
                /\ 0 \in DOMAIN result[k]
                /\ result[k][0] = IF normalize
                                  THEN [num |-> zeros, den |-> sparse_matrix.shape[1]]
                                  ELSE zeros

\* C3: the representation that stores every cell, zeros included, and the one
\* that stores the non-zero cells alone are given the same value-to-count
\* mapping for every column.
C3_DenseSparseEqual ==
    (rep = "sparse" /\ ppc = "done") => result = dense_result

\* Both representations are profiled and a column holds zeros and non-zeros.
C3_Witness ==
    /\ rep = "sparse"
    /\ ppc = "done"
    /\ \E k \in DOMAIN result :
          /\ 0 \in DOMAIN result[k]
          /\ Cardinality(DOMAIN result[k]) > 1
          /\ ImplicitZeros(k - 1) > 0

----------------------------------------------------------------------------
(* The joiner's claims *)

\* The name a row of the result is a record for: the key of an exact-match
\* row, the name of a fuzzy row.
RecordName(row) == IF "Player" \in DOMAIN row THEN row["Player"] ELSE row["name"]

\* The positions of the result that hold a record for the name n.
RecordsFor(n) == {k \in DOMAIN final_result : RecordName(final_result[k]) = n}

\* The rank of the first row of df named n.
RankOf(df, n) == df.rows[CHOOSE k \in DOMAIN df.rows : df.rows[k]["Player"] = n]["Rank"]

\* C5: a name that occurs once in df1 and once in df2 has exactly one record
\* in the result, a row of the exact-match phase that carries every column of
\* both source rows, whatever other names are duplicated. (Spec)
C5_UniqueNameJoinedOnce ==
    jpc = "done" =>
        \A n \in Names :
            (ValueCount(df1, n) = 1 /\ ValueCount(df2, n) = 1) =>
                \E k \in DOMAIN final_result :
                    /\ RecordsFor(n) = {k}
                    /\ k <= Len(clean_join)
                    /\ final_result[k] = clean_join[k]
                    /\ DOMAIN final_result[k] = {"Player", "Rank", "Rank_standings"}
                    /\ final_result[k]["Player"] = n
                    /\ final_result[k]["Rank"] = RankOf(df1, n)
                    /\ final_result[k]["Rank_standings"] = RankOf(df2, n)

\* The call has returned, a name is unique in both tables and another name
\* is duplicated and was matched by rank.
C5_Witness ==
    /\ jpc = "done"
    /\ fuzzy_results # <<>>
    /\ \E n \in Names : ValueCount(df1, n) = 1 /\ ValueCount(df2, n) = 1

\* C6: a name that occurs m times in df1 and n times in df2, m > 1 or n > 1,
\* has exactly min(m, n) records in the result, none of them a row of the
\* exact-match phase, and no error is raised for the surplus rows. (Spec)
C6_DuplicatedNameJoinedMin ==
    /\ jpc # "error"
    /\ jpc = "done" =>
          \A n \in Names :
              (ValueCount(df1, n) > 1 \/ ValueCount(df2, n) > 1) =>
                  /\ Cardinality(RecordsFor(n)) = Min(ValueCount(df1, n), ValueCount(df2, n))
                  /\ \A k \in RecordsFor(n) :
                        /\ k > Len(clean_join)
                        /\ "Player" \notin DOMAIN final_result[k]

\* The call has returned and a name of both tables has surplus rows in df1.
C6_Witness ==
    /\ jpc = "done"
    /\ \E n \in Names :
          /\ ValueCount(df2, n) >= 1
          /\ ValueCount(df1, n) > ValueCount(df2, n)
          /\ Cardinality(RecordsFor(n)) = ValueCount(df2, n)

MissingName == "Player" \notin df1.columns \/ "Player" \notin df2.columns

MissingRank == "Rank" \notin df1.columns \/ "Rank" \notin df2.columns

\* The names of a table that has the name column.
NamesOf(df) == {df.rows[k]["Player"] : k \in DOMAIN df.rows}

\* The ambiguous names that both tables have.
AmbiguousInBoth ==
    {n \in NamesOf(df1) \cap NamesOf(df2) :
        ValueCount(df1, n) > 1 \/ ValueCount(df2, n) > 1}

\* C7 as claimed: when a table lacks the name column or the rank column, the
\* call ends in an error; it never returns. (SpecKeys)
C7_MissingKeyRaises ==
    (MissingName \/ MissingRank) => jpc # "done"

\* C7 as amended: without the name column in a table the call raises
\* KeyError in the merge, before anything is computed. With the name column
\* in both tables and the rank column missing from one, the call raises
\* (AttributeError, before any fuzzy record and without a result) exactly
\* when an ambiguous name occurs in both tables; otherwise it returns the
\* exact-match rows. With no column missing it raises nothing. (SpecKeys)
C7_MissingKeyRaisesWhenRead ==
    /\ MissingName =>
          /\ jpc \in {"call", "error"}
          /\ jpc = "error" => error = "KeyError"
          /\ standard_join = <<>> /\ clean_join = <<>>
          /\ fuzzy_results = <<>> /\ final_result = <<>>
    /\ (~MissingName /\ MissingRank) =>
          /\ fuzzy_results = <<>>
          /\ jpc = "error" =>
                /\ error = "AttributeError"
                /\ final_result = <<>>
                /\ AmbiguousInBoth # {}
          /\ jpc = "done" =>
                /\ AmbiguousInBoth = {}
                /\ final_result = clean_join
    /\ (~MissingName /\ ~MissingRank) => jpc # "error"

\* A table lacks the rank column and the call has returned rows.
C7_Witness ==
    /\ ~MissingName
    /\ MissingRank
    /\ jpc = "done"
    /\ final_result # <<>>

\* C8: two calls on the same two tables pair the same set of
\* (df1 row, df2 row), whatever the order in which each call visits the
\* ambiguous names. (SpecRerun)
C8_SamePairsOnRerun ==
    (run = 2 /\ jpc = "done") => matched_rows = first_rows

\* Both calls have returned, they visited two ambiguous names in different
\* orders, and rows were paired.
C8_Witness ==
    /\ run = 2
    /\ jpc = "done"
    /\ Len(visited) = 2
    /\ visited # first_visited
    /\ matched_rows # {}

\* C9: at every point of the greedy loop, no row of df1 and no row of df2 is
\* in more than one matched pair, ties included. (Spec)
C9_RowsMatchedOnce ==
    /\ \A k, l \in DOMAIN matched_pairs :
          k # l => /\ matched_pairs[k][1] # matched_pairs[l][1]
                   /\ matched_pairs[k][2] # matched_pairs[l][2]
    /\ \A p, q \in matched_rows :
          p # q => p[1] # q[1] /\ p[2] # q[2]

\* Two pairs are matched for a name whose df1 rows have one rank, so that
\* every round had equal distances to choose from.
C9_Witness ==
    /\ jpc = "greedy"
    /\ Len(matched_pairs) >= 2
    /\ \A i \in DOMAIN dup_df1 :
          iloc(df1, dup_df1, i - 1)["Rank"] = iloc(df1, dup_df1, 0)["Rank"]

\* The absolute rank difference of the pair c of the current name's rows.
RankDistance(c) ==
    Abs(iloc(df1, dup_df1, c[1])["Rank"] - iloc(df2, dup_df2, c[2])["Rank"])

\* The pairs of the current name whose two rows are both unmatched.
Unmatched ==
    {c \in (0..(Len(dup_df1) - 1)) \X (0..(Len(dup_df2) - 1)) :
        \A k \in DOMAIN matched_pairs :
            matched_pairs[k][1] # c[1] /\ matched_pairs[k][2] # c[2]}

\* p comes no later than c in a row-major scan.
RowMajorFirst(p, c) == p[1] < c[1] \/ (p[1] = c[1] /\ p[2] <= c[2])

\* C10: the pair an iteration of the greedy loop records has the smallest
\* absolute rank difference among the pairs whose rows are both unmatched,
\* and is the first of those in row-major order. (Spec)
C10_GreedyPicksNearest ==
    [][ Len(matched_pairs') = Len(matched_pairs) + 1 =>
            LET p == matched_pairs'[Len(matched_pairs')]
            IN  /\ p \in Unmatched
                /\ \A c \in Unmatched :
                      \/ RankDistance(p) < RankDistance(c)
                      \/ RankDistance(p) = RankDistance(c) /\ RowMajorFirst(p, c) ]_vars

\* The single df1 row of a name is paired with the second df2 row, the
\* nearer in rank.
C10_Witness ==
    /\ jpc = "greedy"
    /\ Len(dup_df1) = 1
    /\ Len(dup_df2) = 2
    /\ matched_pairs = << <<0, 1>> >>

====
